---- MODULE Spec2Model ----
(***************************************************************************)
(* Artificial Bee Colony for the symmetric TSP (src/src/main.rs).          *)
(*                                                                         *)
(* The program is one sequential thread (main); the two rayon maps are     *)
(* order-preserving maps of pure functions over the population, so each is *)
(* one step.  Random draws are inputs: every action quantifies over the    *)
(* values the generator can return.  Lengths are f64 in the code; the      *)
(* inputs used here have integer pairwise distances, so every sum is an    *)
(* exact integer.  improvement_threshold is an f64 read from the config    *)
(* file: a rational num/den, or NaN.                                       *)
(***************************************************************************)
EXTENDS Integers, Sequences, FiniteSets, TLC

VARIABLES
    pc,                   \* position of main / artificial_bee_colony
    config_file,          \* the config file while read_config holds it open
    distance,             \* adjacency matrix, distance[a+1][b+1]
    config,               \* ConfigKind
    solutions,            \* Vec<Vec<usize>>, one tour per employed bee
    solutions_length,     \* Vec<f64>
    unimproved_times,     \* Vec<usize>
    best_solution,
    best_solution_length,
    iteration,            \* number of completed passes of the for loop
    output,               \* what write_result wrote, <<>> while nothing
    trials_valid,         \* history: every trial tour so far was a tour of all cities
    scouted,              \* history: indices the last scout phase reinitialized
    min_held,             \* history: shortest length ever held by the population
    call,                 \* harness: arguments of a pure function under test
    ret                   \* harness: its result

vars == <<pc, config_file, distance, config, solutions, solutions_length,
          unimproved_times, best_solution, best_solution_length, iteration,
          output, trials_valid, scouted, min_held, call, ret>>

-----------------------------------------------------------------------------
(* Bounds of the model *)

MaxColonySize == 4
MaxUnimproved == 1
MaxIterations == 2
MaxRedraws == 1

-----------------------------------------------------------------------------
(* Small helpers *)

Min(a, b) == IF a < b THEN a ELSE b
Max(a, b) == IF a > b THEN a ELSE b

RECURSIVE SumSeq(_)
SumSeq(s) == IF s = <<>> THEN 0 ELSE Head(s) + SumSeq(Tail(s))

\* the value a Vec operation leaves when the Rust code would panic
Panicked == << -1 >>

\* f64 values of improvement_threshold
Rat(n, d) == [nan |-> FALSE, num |-> n, den |-> d]
NaN == [nan |-> TRUE, num |-> 0, den |-> 1]

\* all permutations of 0..n-1, as sequences
PermsOf(n) == {p \in [1..n -> 0..(n-1)] : \A a, b \in 1..n : p[a] = p[b] => a = b}

IsPermutation(t, n) ==
    /\ Len(t) = n
    /\ \A c \in 0..(n-1) : \E k \in 1..n : t[k] = c

-----------------------------------------------------------------------------
(* Inputs: the spreadsheets and config files the runs are drawn from *)

\* rows of city coordinates; every pairwise distance below is an integer
Cities2 == << <<0, 0>>, <<3, 4>> >>
Cities3 == << <<0, 0>>, <<3, 0>>, <<3, 4>> >>
Cities4 == << <<0, 0>>, <<3, 0>>, <<3, 4>>, <<0, 4>> >>
CitiesRagged == << <<0, 0>>, <<3>> >>

Inputs == {Cities2, Cities3, Cities4, CitiesRagged}

MethodNames == {"Swap", "Insert", "Reverse", "PartialShuffle"}

Thresholds == {Rat(-1, 8), Rat(0, 1), Rat(1, 8), Rat(100, 1), Rat(150, 1), NaN}

\* a config file: the value of each key; candidate_amount 0 stands for
\* "Default", generation_method "Missing" for a file without that key and
\* "Unknown" for a name read_config does not recognize
CandidateAmounts == {0, 1, 2}

ConfigFiles ==
    [colony_size : 0..MaxColonySize,
     candidate_amount : CandidateAmounts,
     max_unimproved : 0..MaxUnimproved,
     max_iterations : 0..MaxIterations,
     improvement_threshold : Thresholds,
     generation_method : MethodNames \cup {"Missing", "Unknown"}]

\* The runs of two bees over four cities are the large ones: they are taken
\* without the NaN threshold, with max_unimproved 1 at most, and for two
\* iterations at most with Swap, for one with the other operators.
LargeRun(city_amount, file) == city_amount * (file.colony_size \div 2) >= 8

Modelled(city_amount, file) ==
    LargeRun(city_amount, file) =>
        /\ ~file.improvement_threshold.nan
        /\ file.max_unimproved <= 1
        /\ file.max_iterations <= (IF file.generation_method = "Swap" THEN 2 ELSE 1)

NoFile ==
    [colony_size |-> 0, candidate_amount |-> 0, max_unimproved |-> 0,
     max_iterations |-> 0, improvement_threshold |-> Rat(0, 1),
     generation_method |-> "Missing"]

-----------------------------------------------------------------------------
(* Pure functions of the program *)

\* the integer square root of a perfect square
Sqrt(x) == CHOOSE r \in 0..x : r * r = x

euclidean_distance(city1, city2) ==
    Sqrt(SumSeq([d \in 1..Len(city1) |->
                    (city1[d] - city2[d]) * (city1[d] - city2[d])]))

\* euclidean_distance panics on two rows of different length; only the
\* pairs i < j are ever compared
DimensionMismatch(cities) ==
    \E i, j \in 1..Len(cities) : i < j /\ Len(cities[i]) # Len(cities[j])

calc_cities_distance(cities) ==
    [i \in 1..Len(cities) |->
        [j \in 1..Len(cities) |->
            IF i = j THEN 0
            ELSE euclidean_distance(cities[Min(i, j)], cities[Max(i, j)])]]

\* the ConfigKind read_config starts from
EmptyConfig ==
    [colony_size |-> 0, candidate_amount |-> 0, max_unimproved |-> 0,
     max_iterations |-> 0, improvement_threshold |-> Rat(0, 1),
     generation_method |-> "None"]

\* read_config panics on a generation method it does not know
ReadConfigPanics(file) == file.generation_method = "Unknown"

read_config(file) ==
    [colony_size |-> file.colony_size,
     candidate_amount |->
        IF file.candidate_amount = 0 THEN file.colony_size \div 2
        ELSE file.candidate_amount,
     max_unimproved |-> file.max_unimproved,
     max_iterations |-> file.max_iterations,
     improvement_threshold |-> file.improvement_threshold,
     generation_method |->
        IF file.generation_method = "Missing" THEN "None"
        ELSE file.generation_method]

\* f64 comparison of a threshold with an integer: false when it is NaN
ThresholdLt(th, n) == ~th.nan /\ th.num < n * th.den
ThresholdGt(th, n) == ~th.nan /\ th.num > n * th.den

\* TRUE when validate_config panics (concurrent_count is the core count,
\* which is never 0)
ValidatePanics(cfg) ==
    \/ cfg.colony_size < 1 \/ (cfg.colony_size % 2) # 0
    \/ cfg.max_unimproved < 1
    \/ cfg.max_iterations < 1
    \/ ThresholdLt(cfg.improvement_threshold, 0)
    \/ ThresholdGt(cfg.improvement_threshold, 100)
    \/ cfg.candidate_amount < 1
    \/ cfg.generation_method = "None"

\* the tours a shuffle of 0..city_amount-1 can return
initialize_solution(city_amount) == PermsOf(city_amount)

\* mutant: the edge from the last city back to the first is left out
calc_path_length_open(solution, dist) ==
    SumSeq([i \in 1..(Len(solution) - 1) |->
               dist[solution[i] + 1][solution[i + 1] + 1]])

calc_path_length(solution, dist) ==
    SumSeq([i \in 1..(Len(solution) - 1) |->
               dist[solution[i] + 1][solution[i + 1] + 1]])
    + dist[solution[Len(solution)] + 1][solution[1] + 1]

\* the pairs (i, j) the retry loop of an operator can leave with: two
\* draws of 0..n-1, redrawn while equal; none when n < 2
DistinctPairs(n) == {p \in (0..(n - 1)) \X (0..(n - 1)) : p[1] # p[2]}

VecRemove(v, index) ==
    IF index >= Len(v) THEN Panicked
    ELSE SubSeq(v, 1, index) \o SubSeq(v, index + 2, Len(v))

VecInsert(v, index, x) ==
    IF v = Panicked \/ index > Len(v) THEN Panicked
    ELSE SubSeq(v, 1, index) \o <<x>> \o SubSeq(v, index + 1, Len(v))

\* mutant: position i is overwritten and position j is not
swap_overwrite(solution, i, j) ==
    [k \in 1..Len(solution) |->
        IF k = i + 1 THEN solution[j + 1] ELSE solution[k]]

swap(solution, i, j) ==
    [k \in 1..Len(solution) |->
        IF k = i + 1 THEN solution[j + 1]
        ELSE IF k = j + 1 THEN solution[i + 1]
        ELSE solution[k]]

insert(solution, i, j) ==
    LET city1 == Min(i, j)
        city2 == Max(i, j)
        moved_city == solution[city2 + 1]
    IN  VecInsert(VecRemove(solution, city2), city1 + 1, moved_city)

reverse(solution, i, j) ==
    LET city1 == Min(i, j)
        city2 == Max(i, j)
    IN  [k \in 1..Len(solution) |->
            IF k >= city1 + 1 /\ k <= city2 + 1
            THEN solution[city1 + city2 + 2 - k]
            ELSE solution[k]]

\* shuffled: the order the shuffle leaves the slice in, a permutation of
\* 0..city2-city1 (which element of the slice lands at each place)
partial_shuffle(solution, i, j, shuffled) ==
    LET city1 == Min(i, j)
        city2 == Max(i, j)
    IN  [k \in 1..Len(solution) |->
            IF k >= city1 + 1 /\ k <= city2 + 1
            THEN solution[city1 + 1 + shuffled[k - city1]]
            ELSE solution[k]]

\* every neighbor one call of the configured operator can return
Neighbors(method, solution) ==
    LET n == Len(solution) IN
    CASE method = "Swap" ->
            {swap(solution, p[1], p[2]) : p \in DistinctPairs(n)}
      [] method = "Insert" ->
            {insert(solution, p[1], p[2]) : p \in DistinctPairs(n)}
      [] method = "Reverse" ->
            {reverse(solution, p[1], p[2]) : p \in DistinctPairs(n)}
      [] method = "PartialShuffle" ->
            UNION {{partial_shuffle(solution, p[1], p[2], sh) :
                        sh \in PermsOf(Max(p[1], p[2]) - Min(p[1], p[2]) + 1)} :
                   p \in DistinctPairs(n)}

\* the while loop of onlooker_bee over the draws it is given: a draw of two
\* equal numbers is skipped, the loop ends once candidate_amount are selected
RECURSIVE onlooker_select(_, _, _, _)
onlooker_select(candidate_solution, dist, draws, selected) ==
    IF Len(selected) >= Len(candidate_solution) \/ draws = <<>> THEN selected
    ELSE LET selected_number1 == Head(draws)[1]
             selected_number2 == Head(draws)[2]
         IN  IF selected_number1 = selected_number2
             THEN onlooker_select(candidate_solution, dist, Tail(draws), selected)
             ELSE IF calc_path_length(candidate_solution[selected_number1 + 1], dist)
                       > calc_path_length(candidate_solution[selected_number2 + 1], dist)
             THEN onlooker_select(candidate_solution, dist, Tail(draws),
                                  Append(selected, selected_number1))
             ELSE onlooker_select(candidate_solution, dist, Tail(draws),
                                  Append(selected, selected_number2))

\* the candidate with the most entries in selected, the first such index
MostSelected(candidate_amount, selected) ==
    LET count == [k \in 0..(candidate_amount - 1) |->
                     Cardinality({r \in 1..Len(selected) : selected[r] = k})]
        max_count == CHOOSE c \in {count[k] : k \in 0..(candidate_amount - 1)} :
                         \A k \in 0..(candidate_amount - 1) : count[k] <= c
    IN  CHOOSE k \in 0..(candidate_amount - 1) :
            /\ count[k] = max_count
            /\ \A l \in 0..(k - 1) : count[l] # max_count

onlooker_bee(candidate_solution, dist, draws) ==
    LET selected == onlooker_select(candidate_solution, dist, draws, <<>>)
    IN  candidate_solution[MostSelected(Len(candidate_solution), selected) + 1]

\* the draw sequences on which the while loop of onlooker_bee runs to its
\* end: candidate_amount draws of two different numbers, the last draw one
\* of them, and at most MaxRedraws draws of two equal numbers in between.
\* With candidate_amount = 1 there is none: every draw is (0, 0).
DrawSeqs(candidate_amount) ==
    LET numbers == 0..(candidate_amount - 1)
        counted(ds) == Cardinality({r \in 1..Len(ds) : ds[r][1] # ds[r][2]})
    IN  UNION {{ds \in [1..(candidate_amount + redraws) -> numbers \X numbers] :
                    /\ counted(ds) = candidate_amount
                    /\ ds[Len(ds)][1] # ds[Len(ds)][2]} :
               redraws \in 0..MaxRedraws}

\* every tour one call of employed_bee can return: candidate_amount
\* neighbors of the configured operator, then the tournament
employed_bee(solution, dist, candidate_amount, generation_method) ==
    {onlooker_bee(candidate_solution, dist, draws) :
        candidate_solution \in
            [1..candidate_amount -> Neighbors(generation_method, solution)],
        draws \in DrawSeqs(candidate_amount)}

\* employed_bee tabulated over the inputs of the model (a function of its
\* arguments and of the draws only)
TrialTours ==
    LET dists == {calc_cities_distance(c) :
                     c \in {c \in Inputs : ~DimensionMismatch(c)}}
        keys == UNION {{<<dist, solution>> : solution \in PermsOf(Len(dist))} :
                       dist \in dists}
        table == [key \in keys, candidate_amount \in CandidateAmounts \ {0},
                  generation_method \in MethodNames |->
                     employed_bee(key[2], key[1], candidate_amount,
                                  generation_method)]
    IN  table @@ table     \* @@ has TLC evaluate the table once

\* the results exploration_phase can return for a population: employed_bee
\* of each member, in the order of the members
RECURSIVE exploration_phase(_, _, _, _)
exploration_phase(sols, dist, candidate_amount, generation_method) ==
    IF sols = <<>> THEN {<<>>}
    ELSE {<<trial>> \o rest :
            trial \in TrialTours[<<dist, Head(sols)>>, candidate_amount, generation_method],
            rest \in exploration_phase(Tail(sols), dist, candidate_amount,
                                       generation_method)}

-----------------------------------------------------------------------------
(* main *)

Init ==
    /\ pc = "start"
    /\ config_file = NoFile
    /\ distance = <<>>
    /\ config = EmptyConfig
    /\ solutions = <<>>
    /\ solutions_length = <<>>
    /\ unimproved_times = <<>>
    /\ best_solution = <<>>
    /\ best_solution_length = 0
    /\ iteration = 0
    /\ output = <<>>
    /\ trials_valid = TRUE
    /\ scouted = {}
    /\ min_held = 0
    /\ call = <<>>
    /\ ret = <<>>

engine == <<solutions, solutions_length, unimproved_times, best_solution,
            best_solution_length, iteration, trials_valid, scouted, min_held>>

\* read_xlsx and calc_cities_distance
ReadInput ==
    /\ pc = "start"
    /\ \E cities \in Inputs :
          IF DimensionMismatch(cities)
          THEN /\ pc' = "panicked"
               /\ UNCHANGED distance
          ELSE /\ pc' = "read_config"
               /\ distance' = calc_cities_distance(cities)
    /\ UNCHANGED <<config_file, config, engine, output, call, ret>>

\* read_config opens the file
OpenConfig ==
    /\ pc = "read_config"
    /\ \E file \in ConfigFiles :
          /\ Modelled(Len(distance), file)
          /\ config_file' = file
    /\ pc' = "parse_config"
    /\ UNCHANGED <<distance, config, engine, output, call, ret>>

\* read_config parses it and returns, or panics with the file in hand
ParseConfig ==
    /\ pc = "parse_config"
    /\ IF ReadConfigPanics(config_file)
       THEN /\ pc' = "panicked"
            /\ UNCHANGED <<config, config_file>>
       ELSE /\ pc' = "validate_config"
            /\ config' = read_config(config_file)
            /\ config_file' = NoFile
    /\ UNCHANGED <<distance, engine, output, call, ret>>

ValidateConfig ==
    /\ pc = "validate_config"
    /\ pc' = IF ValidatePanics(config) THEN "panicked" ELSE "initialize"
    /\ UNCHANGED <<config_file, distance, config, engine, output, call, ret>>

-----------------------------------------------------------------------------
(* artificial_bee_colony *)

Members == 1..(config.colony_size \div 2)

SeqMin(s) == CHOOSE m \in {s[k] : k \in 1..Len(s)} : \A k \in 1..Len(s) : m <= s[k]

\* initialize_phase, the seeding of the best and of the counters; the for
\* loop is entered when max_iterations > 0
InitializePhase ==
    /\ pc = "initialize"
    /\ \E fresh \in [Members -> initialize_solution(Len(distance))] :
          /\ solutions' = fresh
          /\ solutions_length' =
                [k \in Members |-> calc_path_length(fresh[k], distance)]
          /\ best_solution' = fresh[1]
    /\ best_solution_length' = solutions_length'[1]
    /\ unimproved_times' = [k \in Members |-> 0]
    /\ min_held' = SeqMin(solutions_length')
    /\ pc' = IF config.max_iterations > 0 THEN "exploration" ELSE "exhausted"
    /\ UNCHANGED <<config_file, distance, config, iteration, output,
                   trials_valid, scouted, call, ret>>

\* line 384: a trial is adopted
TrialBetter(new_length, length) == new_length < length

\* lines 382-391: exploration_phase (employed_bee mapped over the
\* population, calc_path_length mapped over the result), then the
\* replacement loop.  new_solutions lives in this step only.
ExplorationPhase ==
    /\ pc = "exploration"
    /\ \E new_solutions \in exploration_phase(solutions, distance,
                               config.candidate_amount, config.generation_method) :
          LET new_solutions_length ==
                  [k \in Members |-> calc_path_length(new_solutions[k], distance)]
              adopted == {k \in Members :
                             TrialBetter(new_solutions_length[k], solutions_length[k])}
          IN  /\ solutions' = [k \in Members |->
                      IF k \in adopted THEN new_solutions[k] ELSE solutions[k]]
              /\ solutions_length' = [k \in Members |->
                      IF k \in adopted THEN new_solutions_length[k]
                      ELSE solutions_length[k]]
              /\ unimproved_times' = [k \in Members |->
                      IF k \in adopted THEN 0 ELSE unimproved_times[k] + 1]
              /\ trials_valid' =
                      (trials_valid /\ \A k \in Members :
                          IsPermutation(new_solutions[k], Len(distance)))
    /\ min_held' = Min(min_held, SeqMin(solutions_length'))
    /\ pc' = "scout"
    /\ UNCHANGED <<config_file, distance, config, best_solution,
                   best_solution_length, iteration, output, scouted, call, ret>>

\* mutant: a member is given up as soon as it reaches the limit
Stagnant_AtLimit(k) == unimproved_times[k] >= config.max_unimproved

\* line 393: member k is given up
Stagnant(k) == unimproved_times[k] > config.max_unimproved

\* the scout loop
ScoutPhase ==
    /\ pc = "scout"
    /\ LET stagnant == {k \in Members : Stagnant(k)} IN
       \E fresh \in [stagnant -> initialize_solution(Len(distance))] :
          /\ solutions' = [k \in Members |->
                              IF k \in stagnant THEN fresh[k] ELSE solutions[k]]
          /\ solutions_length' = [k \in Members |->
                              IF k \in stagnant
                              THEN calc_path_length(fresh[k], distance)
                              ELSE solutions_length[k]]
          /\ unimproved_times' = [k \in Members |->
                              IF k \in stagnant THEN 0 ELSE unimproved_times[k]]
          /\ scouted' = stagnant
    /\ min_held' = Min(min_held, SeqMin(solutions_length'))
    /\ pc' = "best_update"
    /\ UNCHANGED <<config_file, distance, config, best_solution,
                   best_solution_length, iteration, output, trials_valid,
                   call, ret>>

\* mutant: the comparison of min_by is turned round, the longest member is
\* taken
best_index_longest ==
    CHOOSE k \in Members :
        /\ \A l \in Members : solutions_length[k] >= solutions_length[l]
        /\ \A l \in 1..(k - 1) : solutions_length[l] # solutions_length[k]

\* line 399: min_by keeps the first of several equal minima
best_index ==
    CHOOSE k \in Members :
        /\ \A l \in Members : solutions_length[k] <= solutions_length[l]
        /\ \A l \in 1..(k - 1) : solutions_length[l] # solutions_length[k]

\* mutant: <= for <
BestImproved_NotStrict == solutions_length[best_index] <= best_solution_length

\* line 400
BestImproved == solutions_length[best_index] < best_solution_length

\* mutant: <= for <
ImprovementAtMostThreshold ==
    LET th == config.improvement_threshold IN
    /\ ~th.nan
    /\ (best_solution_length - solutions_length[best_index]) * th.den
          <= th.num * best_solution_length

\* mutant: > for <
ImprovementAboveThreshold ==
    LET th == config.improvement_threshold IN
    /\ ~th.nan
    /\ (best_solution_length - solutions_length[best_index]) * th.den
          > th.num * best_solution_length

\* lines 401 and 404: (best - new) / best < improvement_threshold, in f64;
\* best > new >= 0 here, and a comparison with NaN is false
ImprovementBelowThreshold ==
    LET th == config.improvement_threshold IN
    /\ ~th.nan
    /\ (best_solution_length - solutions_length[best_index]) * th.den
          < th.num * best_solution_length

\* the best update, the convergence break and the end of the loop body
BestUpdate ==
    /\ pc = "best_update"
    /\ IF BestImproved
       THEN /\ best_solution' = solutions[best_index]
            /\ best_solution_length' = solutions_length[best_index]
            /\ pc' = IF ImprovementBelowThreshold THEN "converged"
                     ELSE IF iteration + 1 < config.max_iterations
                     THEN "exploration" ELSE "exhausted"
       ELSE /\ UNCHANGED <<best_solution, best_solution_length>>
            /\ pc' = IF iteration + 1 < config.max_iterations
                     THEN "exploration" ELSE "exhausted"
    /\ iteration' = iteration + 1
    /\ scouted' = {}
    /\ UNCHANGED <<config_file, distance, config, solutions, solutions_length,
                   unimproved_times, output, trials_valid, min_held, call, ret>>

\* artificial_bee_colony returns; main formats the result and writes it
WriteResult ==
    /\ pc \in {"converged", "exhausted"}
    /\ output' = <<best_solution, best_solution_length>>
    /\ pc' = "done"
    /\ UNCHANGED <<config_file, distance, config, engine, call, ret>>

Next ==
    \/ ReadInput
    \/ OpenConfig
    \/ ParseConfig
    \/ ValidateConfig
    \/ InitializePhase
    \/ ExplorationPhase
    \/ ScoutPhase
    \/ BestUpdate
    \/ WriteResult

Spec == Init /\ [][Next]_vars

\* a sequential program that is not blocked takes its next step
FairSpec == Spec /\ WF_vars(Next)

-----------------------------------------------------------------------------
(* onlooker_bee on its own: the candidates and the draws are the inputs *)

\* three tours of Cities4, of lengths 14, 16 and 18
HarnessTours == {<<0, 1, 2, 3>>, <<0, 1, 3, 2>>, <<0, 2, 1, 3>>}

HarnessAmounts == {2, 3}

InitOnlooker ==
    /\ pc = "onlooker_bee"
    /\ config_file = NoFile
    /\ distance = calc_cities_distance(Cities4)
    /\ config = EmptyConfig
    /\ solutions = <<>>
    /\ solutions_length = <<>>
    /\ unimproved_times = <<>>
    /\ best_solution = <<>>
    /\ best_solution_length = 0
    /\ iteration = 0
    /\ output = <<>>
    /\ trials_valid = TRUE
    /\ scouted = {}
    /\ min_held = 0
    /\ \E candidate_amount \in HarnessAmounts :
          \E candidate_solution \in [1..candidate_amount -> HarnessTours] :
             \E draws \in DrawSeqs(candidate_amount) :
                call = [candidate_solution |-> candidate_solution, draws |-> draws]
    /\ ret = <<>>

OnlookerBee ==
    /\ pc = "onlooker_bee"
    /\ ret' = onlooker_bee(call.candidate_solution, distance, call.draws)
    /\ pc' = "returned"
    /\ UNCHANGED <<config_file, distance, config, engine, output, call>>

SpecOnlooker == InitOnlooker /\ [][OnlookerBee]_vars

-----------------------------------------------------------------------------
(* What the claims speak of, stated apart from the code *)

\* the length of the closed tour: every edge to the next city, the last
\* city's next being the first
CyclicLength(tour, dist) ==
    SumSeq([k \in 1..Len(tour) |->
               dist[tour[k] + 1][tour[(k % Len(tour)) + 1] + 1]])

CityAmount == Len(distance)

\* positions at which the population exists
Running == pc \in {"exploration", "scout", "best_update", "converged",
                   "exhausted", "done"}

\* positions after the scout phase of an iteration, or before the first
AfterScout == pc \in {"exploration", "best_update", "converged", "exhausted", "done"}

\* positions at the end of an iteration
IterationEnded ==
    \/ pc \in {"converged", "exhausted", "done"}
    \/ pc = "exploration" /\ iteration >= 1

MinLength == SeqMin(solutions_length)

\* the tournament of the specification: the draws with two different
\* numbers count, each is won by the shorter candidate (by the second drawn
\* when both are as long), most wins first, lowest index among equals
RECURSIVE TournamentWins(_, _, _)
TournamentWins(candidate_solution, dist, draws) ==
    IF draws = <<>> THEN <<>>
    ELSE LET a == Head(draws)[1]
             b == Head(draws)[2]
             la == CyclicLength(candidate_solution[a + 1], dist)
             lb == CyclicLength(candidate_solution[b + 1], dist)
             rest == TournamentWins(candidate_solution, dist, Tail(draws))
         IN  IF a = b THEN rest
             ELSE IF la < lb THEN <<a>> \o rest
             ELSE <<b>> \o rest

Tournament(candidate_solution, dist, draws) ==
    LET wins == TournamentWins(candidate_solution, dist, draws)
        tally(k) == Cardinality({r \in 1..Len(wins) : wins[r] = k})
        numbers == 0..(Len(candidate_solution) - 1)
        winner == CHOOSE k \in numbers :
                     /\ \A l \in numbers : tally(l) <= tally(k)
                     /\ \A l \in numbers : tally(l) = tally(k) => k <= l
    IN  candidate_solution[winner + 1]

-----------------------------------------------------------------------------
(* The claims *)

\* C1: onlooker_bee returns the candidate the specified tournament returns
\* on the same draws (a win for the shorter of the two drawn, most wins,
\* lowest index among equals).
C1_OnlookerIsTournament ==
    pc = "returned" =>
        ret = Tournament(call.candidate_solution, distance, call.draws)

\* C2: every run with a validated configuration terminates under fair
\* draws: it reaches the end of main.
C2_Terminates ==
    (pc = "initialize" /\ ~config.improvement_threshold.nan) ~> (pc = "done")

\* C3: best_solution_length never increases, and best_solution and
\* best_solution_length are overwritten only by the best update of an
\* iteration in which some member is strictly shorter than the best.
C3_BestMonotone ==
    [][Running =>
        /\ best_solution_length' <= best_solution_length
        /\ (best_solution' # best_solution
              \/ best_solution_length' # best_solution_length)
           => /\ pc = "best_update"
              /\ \E k \in Members : solutions_length[k] < best_solution_length
              /\ best_solution_length' < best_solution_length]_vars

C3_Witness == pc = "converged" /\ iteration = 1 /\ best_solution_length = 14

\* C4: the scout phase reinitializes a member exactly when its counter is
\* above max_unimproved and sets that counter to 0; the other members are
\* left as they are; after the scout phase every counter is in
\* 0..max_unimproved.
C4_ScoutStep ==
    pc = "scout" =>
        \A k \in Members :
            IF unimproved_times[k] > config.max_unimproved
            THEN /\ unimproved_times'[k] = 0
                 /\ IsPermutation(solutions'[k], CityAmount)
                 /\ solutions_length'[k] = CyclicLength(solutions'[k], distance)
            ELSE /\ unimproved_times'[k] = unimproved_times[k]
                 /\ solutions'[k] = solutions[k]
                 /\ solutions_length'[k] = solutions_length[k]

C4_CountersInRange ==
    AfterScout => \A k \in Members : unimproved_times[k] \in 0..config.max_unimproved

C4_Scout == [][C4_ScoutStep]_vars /\ []C4_CountersInRange

C4_Witness ==
    /\ pc = "best_update"
    /\ scouted # {}
    /\ \E k \in Members : k \notin scouted /\ unimproved_times[k] = config.max_unimproved

\* C5: every tour held is a permutation of 0..N-1: every member of the
\* population, every trial tour the operators and the tournament returned,
\* the best tour and the tour written.
C5_ToursArePermutations ==
    /\ trials_valid
    /\ Running =>
          /\ \A k \in Members : IsPermutation(solutions[k], CityAmount)
          /\ IsPermutation(best_solution, CityAmount)
    /\ output # <<>> => IsPermutation(output[1], CityAmount)

C5_Witness ==
    /\ pc = "scout"
    /\ CityAmount = 4
    /\ config.generation_method = "Insert"
    /\ \E k \in Members : unimproved_times[k] = 0

\* C6: after initialization and after every update step each recorded
\* length is the cyclic length of its tour, for the population, for the
\* best and for the result written.
C6_LengthsAreTrue ==
    /\ Running =>
          /\ \A k \in Members :
                solutions_length[k] = CyclicLength(solutions[k], distance)
          /\ best_solution_length = CyclicLength(best_solution, distance)
    /\ output # <<>> => output[2] = CyclicLength(output[1], distance)

C6_Witness ==
    /\ pc = "done"
    /\ CityAmount = 4
    /\ iteration = 2
    /\ output[2] = 14

\* C7: a config with colony_size 0, an odd colony_size, an
\* improvement_threshold that is not in [0,100], or an unrecognized or
\* missing generation method is rejected: the program panics, before any
\* iteration and before anything is written, and does nothing after.
ThresholdInRange(th) == ~th.nan /\ 0 <= th.num /\ th.num <= 100 * th.den

C7_MustReject(cfg) ==
    \/ cfg.colony_size = 0
    \/ cfg.colony_size % 2 = 1
    \/ ~ThresholdInRange(cfg.improvement_threshold)
    \/ cfg.generation_method \notin MethodNames

C7_Step ==
    /\ (pc = "parse_config" /\ config_file.generation_method = "Unknown")
          => pc' = "panicked"
    /\ (pc = "validate_config" /\ C7_MustReject(config)) => pc' = "panicked"
    /\ pc # "panicked"

C7_Quiet == pc = "panicked" => iteration = 0 /\ solutions = <<>> /\ output = <<>>

C7_Rejects == [][C7_Step]_vars /\ []C7_Quiet

\* The same rejections, for the thresholds that are numbers.
C7_NumberStep ==
    /\ (pc = "parse_config" /\ config_file.generation_method = "Unknown")
          => pc' = "panicked"
    /\ (pc = "validate_config" /\ ~config.improvement_threshold.nan
            /\ C7_MustReject(config)) => pc' = "panicked"
    /\ pc # "panicked"

C7_RejectsNumbers == [][C7_NumberStep]_vars /\ []C7_Quiet

\* C8: the best update stops the run (converged) exactly when the shortest
\* member is strictly shorter than the best and (best - new) / best is
\* strictly below improvement_threshold, the best being that member then;
\* otherwise the run goes on, and it is exhausted after exactly
\* max_iterations iterations.
C8_Improvement(th) ==
    /\ MinLength < best_solution_length
    /\ ~th.nan
    /\ (best_solution_length - MinLength) * th.den < th.num * best_solution_length

C8_Step ==
    pc = "best_update" =>
        IF C8_Improvement(config.improvement_threshold)
        THEN /\ pc' = "converged"
             /\ best_solution_length' = MinLength
             /\ \E k \in Members : /\ solutions[k] = best_solution'
                                   /\ solutions_length[k] = MinLength
        ELSE /\ pc' = IF iteration' = config.max_iterations
                      THEN "exhausted" ELSE "exploration"
             /\ iteration' = iteration + 1

C8_Ends ==
    /\ pc = "exhausted" => iteration = config.max_iterations
    /\ pc = "converged" => iteration \in 1..config.max_iterations
    /\ pc = "exploration" => iteration < config.max_iterations

C8_Convergence == [][C8_Step]_vars /\ []C8_Ends

C8_Witness ==
    /\ pc = "converged"
    /\ iteration = 2
    /\ config.improvement_threshold = Rat(1, 8)

\* C9 as stated: with improvement_threshold above 1 the run never stops
\* early.
C9_NeverConvergesAboveOne ==
    ThresholdGt(config.improvement_threshold, 1) => pc # "converged"

\* C9 as amended: with improvement_threshold above 1 the best update stops
\* the run whenever some member is strictly shorter than the best, so such
\* a run is exhausted only when no iteration improved the best; the best
\* update never stops a run whose threshold is 0 or NaN.
C9_Step ==
    pc = "best_update" =>
        /\ (ThresholdGt(config.improvement_threshold, 1)
              /\ MinLength < best_solution_length) => pc' = "converged"
        /\ (config.improvement_threshold.nan
              \/ config.improvement_threshold.num = 0) => pc' # "converged"

C9_StopsOnEveryImprovement == [][C9_Step]_vars

C9_Witness ==
    /\ pc = "converged"
    /\ ThresholdGt(config.improvement_threshold, 1)
    /\ iteration = 2

\* C10: the scout phase never discards a tour strictly shorter than the
\* best of that moment, and at the end of every iteration the best length
\* is at most the length of every tour the population has held.
C10_ScoutStep ==
    pc = "scout" =>
        \A k \in Members :
            unimproved_times[k] > config.max_unimproved
                => solutions_length[k] >= best_solution_length

C10_BestIsLeast == IterationEnded => best_solution_length <= min_held

C10_NothingLost == [][C10_ScoutStep]_vars /\ []C10_BestIsLeast

C10_Witness ==
    /\ pc = "best_update"
    /\ scouted # {}
    /\ \E k \in scouted : solutions_length[k] < best_solution_length
    /\ solutions_length[1] > min_held

====
